---------------------------- MODULE Spec2Model ----------------------------
(***************************************************************************)
(* Model of build_kernel.py (src/build_kernel/build_kernel.py): the        *)
(* VersionInfo record with its ordering, the scan of the install directory *)
(* (__find_installed_kernels), the retention pass (__clean_up with         *)
(* VersionInfo.remove), and the steps of KernelUpdater.update.             *)
(*                                                                         *)
(* Spec: clean-only runs over every layout of the install directory.       *)
(* UpdateSpec: runs in every mode over a few layouts.                      *)
(* CmpSpec: the comparisons of test.py.                                    *)
(*                                                                         *)
(* File names and version strings are sequences of atoms: the decimal      *)
(* digits "0".."9", the separators "-", "." and "/", and the fixed words   *)
(* "vmlinuz", "System.map", "config", "gentoo", "r", "old", "linux",       *)
(* "modules".  str.split, str.lstrip, str.endswith, the `in` substring     *)
(* test, Path.suffix and int() are computed on these sequences.            *)
(***************************************************************************)
EXTENDS Integers, Sequences, FiniteSets, TLC

VARIABLES
    fs,               \* the paths that exist: boot files, source dirs, module dirs
    dir_order,        \* the order in which the directory lists System.map* and config*
    versions_to_keep, \* KernelUpdater.__versions_to_keep, the config string
    current_kernels,  \* KernelUpdater.__current_kernels
    pc,               \* position of the program
    num_left,         \* iterations left of the loop `for _ in range(num_to_delete)`
    todo,             \* remove(): the rm commands still to issue for the record
    removing,         \* remove(): the record being removed (a 0/1-element sequence)
    removed,          \* history: the records popped by the retention pass, in order
    log,              \* history: every rm issued: [rec, target, ok, run]
    cmp,              \* the comparison harness: three records and the results
    settings,         \* the command line and settings.ini: clean_only, manual_edit,
                      \* emerge_module_rebuild, gen_grub_config, and the kernel
                      \* whose source tree is at KernelSourcePath
    steps,            \* history: the steps update() has started: [step, cmd, ok]
    runs              \* the number of the current run of the program

vars == <<fs, dir_order, versions_to_keep, current_kernels, pc,
          num_left, todo, removing, removed, log, cmp, settings, steps, runs>>

-----------------------------------------------------------------------------
(* Bounds *)

\* most kernels (image keys) installed in the boot directory at the start
MaxKernels == 4
\* largest release-candidate number -rN
MaxRC == 1
\* largest configured VersionsToKeep
MaxKeep == 3
\* most runs of the program in succession
MaxRuns == 2

-----------------------------------------------------------------------------
(* Strings *)

DigitChars == <<"0", "1", "2", "3", "4", "5", "6", "7", "8", "9">>

IsDigit(c) == \E d \in 1..10 : DigitChars[d] = c

DigitVal(c) == (CHOOSE d \in 1..10 : DigitChars[d] = c) - 1

\* str(n) for a natural number n
RECURSIVE Digits(_)
Digits(n) == IF n < 10 THEN <<DigitChars[n + 1]>>
             ELSE Append(Digits(n \div 10), DigitChars[(n % 10) + 1])

\* whether int(s) succeeds: a non-empty run of digits
CanInt(s) == Len(s) > 0 /\ \A i \in 1..Len(s) : IsDigit(s[i])

\* int(s), for CanInt(s)
RECURSIVE ToInt(_)
ToInt(s) == IF Len(s) = 0 THEN 0
            ELSE 10 * ToInt(SubSeq(s, 1, Len(s) - 1)) + DigitVal(s[Len(s)])

\* s.split(sep=sep) for a one-atom separator
RECURSIVE Split(_, _)
Split(s, sep) ==
    IF \A i \in 1..Len(s) : s[i] # sep THEN <<s>>
    ELSE LET i == CHOOSE j \in 1..Len(s) :
                      s[j] = sep /\ \A k \in 1..(j - 1) : s[k] # sep
         IN  <<SubSeq(s, 1, i - 1)>> \o Split(SubSeq(s, i + 1, Len(s)), sep)

\* sub in s
Contains(sub, s) ==
    \E i \in 1..(Len(s) - Len(sub) + 1) : SubSeq(s, i, i + Len(sub) - 1) = sub

\* s.endswith(suf)
EndsWith(s, suf) ==
    Len(s) >= Len(suf) /\ SubSeq(s, Len(s) - Len(suf) + 1, Len(s)) = suf

\* s.startswith(pre)
StartsWith(s, pre) == Len(s) >= Len(pre) /\ SubSeq(s, 1, Len(pre)) = pre

\* s.lstrip(c)
RECURSIVE LStrip(_, _)
LStrip(s, c) == IF Len(s) > 0 /\ s[1] = c THEN LStrip(Tail(s), c) ELSE s

\* Path(s).suffix: from the last "." on, empty when there is none
PathSuffix(s) ==
    IF \A i \in 1..Len(s) : s[i] # "." THEN <<>>
    ELSE LET i == CHOOSE j \in 1..Len(s) :
                      s[j] = "." /\ \A k \in (j + 1)..Len(s) : s[k] # "."
         IN  SubSeq(s, i, Len(s))

DotOld == <<".", "old">>

-----------------------------------------------------------------------------
(* VersionInfo *)

\* VersionInfo.__init__
VersionInfo(version_triple, vmlinuz, system_map, config, is_old, release_candidate_num) ==
    [version_triple |-> version_triple, vmlinuz |-> vmlinuz,
     system_map |-> system_map, config |-> config, is_old |-> is_old,
     release_candidate_num |-> release_candidate_num]

\* whether as_tuple returns (every int() succeeds and X.Y.Z has three fields)
TupleOk(v) ==
    LET version_triple_split == Split(v.version_triple, ".")
    IN  /\ Len(version_triple_split) >= 3
        /\ \A i \in 1..3 : CanInt(version_triple_split[i])
        /\ CanInt(v.release_candidate_num)

\* a faulty variant of as_tuple: the .old adjustment is forgotten
as_tuple_no_old(v) ==
    LET version_triple_split == Split(v.version_triple, ".")
    IN  <<ToInt(version_triple_split[1]), ToInt(version_triple_split[2]),
          ToInt(version_triple_split[3]), ToInt(v.release_candidate_num), 0>>

\* a number ordered as the digit string s is ordered by str comparison
\* (for strings of at most two digits): "10" < "9"
StrKey(s) == 11 * DigitVal(s[1]) + (IF Len(s) > 1 THEN DigitVal(s[2]) + 1 ELSE 0)

\* a faulty variant of as_tuple: the patch field is compared as a string, not as a number
as_tuple_str_patch(v) ==
    LET version_triple_split == Split(v.version_triple, ".")
    IN  <<ToInt(version_triple_split[1]), ToInt(version_triple_split[2]),
          StrKey(version_triple_split[3]), ToInt(v.release_candidate_num),
          IF v.is_old THEN -1 ELSE 0>>

\* a faulty variant of as_tuple: minor and patch change places
as_tuple_swapped(v) ==
    LET version_triple_split == Split(v.version_triple, ".")
    IN  <<ToInt(version_triple_split[1]), ToInt(version_triple_split[3]),
          ToInt(version_triple_split[2]), ToInt(v.release_candidate_num),
          IF v.is_old THEN -1 ELSE 0>>

\* VersionInfo.as_tuple
as_tuple(v) ==
    LET version_triple_split == Split(v.version_triple, ".")
        major == version_triple_split[1]
        minor == version_triple_split[2]
        patch == version_triple_split[3]
        old_adj == IF v.is_old THEN -1 ELSE 0
    IN  <<ToInt(major), ToInt(minor), ToInt(patch),
          ToInt(v.release_candidate_num), old_adj>>

\* Python's tuple comparison a > b, for tuples of equal length
TupleGt(a, b) ==
    \E i \in 1..Len(a) : a[i] > b[i] /\ \A j \in 1..(i - 1) : a[j] = b[j]

\* VersionInfo.__eq__
Eq(x, y) == as_tuple(x) = as_tuple(y)

\* VersionInfo.__gt__
Gt(x, y) == TupleGt(as_tuple(x), as_tuple(y))

\* VersionInfo.__lt__
Lt(x, y) == TupleGt(as_tuple(y), as_tuple(x))


\* sorted(...) keeps an element x after the elements that are not less than it
InsertDesc(s, x) ==
    LET before == {i \in 1..Len(s) : Lt(s[i], x)}
        k == IF before = {} THEN Len(s) + 1
             ELSE CHOOSE i \in before : \A j \in before : i <= j
    IN  SubSeq(s, 1, k - 1) \o <<x>> \o SubSeq(s, k, Len(s))

\* sorted(s, reverse=True)
RECURSIVE SortedDesc(_)
SortedDesc(s) ==
    IF Len(s) <= 1 THEN s
    ELSE InsertDesc(SortedDesc(SubSeq(s, 1, Len(s) - 1)), s[Len(s)])

\* whether sorted(s, reverse=True) returns: every comparison calls as_tuple
SortOk(s) == Len(s) <= 1 \/ \A i \in 1..Len(s) : TupleOk(s[i])

-----------------------------------------------------------------------------
(* The layout of the install, source and module directories *)

Versions == {<<5, 7, 9>>, <<5, 7, 10>>, <<5, 8, 0>>, <<15, 8, 0>>}

\* the versions that also come as release candidates -r1, -r2, ...
RcVersions == {<<5, 7, 9>>}

\* the versions that were installed twice, so that a .old generation exists
OldVersions == {<<5, 7, 10>>}

\* an installed kernel: <<version, release candidate (0: none), is .old>>
Keys == (Versions \X {0} \X {FALSE})
        \cup (OldVersions \X {0} \X {TRUE})
        \cup (RcVersions \X (1..MaxRC) \X {FALSE})
        \cup (RcVersions \X {1} \X {TRUE})

Kinds == {"vmlinuz", "System.map", "config"}

\* "X.Y.Z"
VerStr(v) == Digits(v[1]) \o <<".">> \o Digits(v[2]) \o <<".">> \o Digits(v[3])

\* the kernel release "X.Y.Z-gentoo" or "X.Y.Z-gentoo-rN"
Release(v, rc) ==
    VerStr(v) \o <<"-", "gentoo">> \o (IF rc > 0 THEN <<"-", "r">> \o Digits(rc) ELSE <<>>)

\* "vmlinuz-X.Y.Z-gentoo[-rN][.old]", and the same for System.map and config
BootName(kind, key) ==
    <<kind, "-">> \o Release(key[1], key[2]) \o (IF key[3] THEN DotOld ELSE <<>>)

\* "/usr/src/linux-X.Y.Z-gentoo[-rN]"
SourceDir(v, rc) == <<"linux", "-">> \o Release(v, rc)

\* "/lib/modules/X.Y.Z-gentoo[-rN]"
ModulesDir(v, rc) == <<"modules", "/">> \o Release(v, rc)

\* the System.map and config files of a set of installed kernels
SiblingFiles(S) == {BootName(kind, key) : kind \in {"System.map", "config"}, key \in S}

\* the boot files of a set of installed kernels
BootFiles(S) == {BootName(kind, key) : kind \in Kinds, key \in S}

\* the source and module directories of a set of installed kernels
Dirs(S) == {SourceDir(key[1], key[2]) : key \in S}
           \cup {ModulesDir(key[1], key[2]) : key \in S}

\* Path().glob("vmlinuz-*-gentoo*")
glob_vmlinuz(files) ==
    {p \in files : /\ StartsWith(p, <<"vmlinuz", "-">>)
                   /\ Contains(<<"-", "gentoo">>, SubSeq(p, 3, Len(p)))}

\* Path().glob("System.map*"): the names that exist, in directory order
glob_system_maps(order, files) ==
    LET hit(p) == p \in files /\ StartsWith(p, <<"System.map">>)
    IN  SelectSeq(order, hit)

\* Path().glob("config*"): the names that exist, in directory order
glob_configs(order, files) ==
    LET hit(p) == p \in files /\ StartsWith(p, <<"config">>)
    IN  SelectSeq(order, hit)

-----------------------------------------------------------------------------
(* The scan: KernelUpdater.__find_installed_kernels *)

\* [s for s in candidates if version_triple in str(s) and
\*  str(s).endswith(".old")]  (is_old), or `and not str(s).endswith(".old")`
Matches(candidates, version_triple, is_old) ==
    LET hit(s) == Contains(version_triple, s) /\ (EndsWith(s, DotOld) <=> is_old)
    IN  SelectSeq(candidates, hit)

\* the release_candidate_num the loop body computes for an image name
RcOf(vmlinuz) ==
    LET version_triple == Split(vmlinuz, "-")
    IN  IF Len(version_triple) = 4 THEN LStrip(version_triple[4], "r") ELSE <<"0">>

\* version_triple[1], the 'X.Y.Z' of 'vmlinuz-X.Y.Z-gentoo'
TripleOf(vmlinuz) == Split(vmlinuz, "-")[2]

\* is_old = bool(vmlinuz.suffix == '.old')
IsOldOf(vmlinuz) == PathSuffix(vmlinuz) = DotOld

\* the System.map candidates of an image, in directory order
SystemMapsOf(order, files, vmlinuz) ==
    Matches(glob_system_maps(order, files), TripleOf(vmlinuz), IsOldOf(vmlinuz))

\* the config candidates of an image, in directory order
ConfigsOf(order, files, vmlinuz) ==
    Matches(glob_configs(order, files), TripleOf(vmlinuz), IsOldOf(vmlinuz))

\* whether the loop body gets past its error_and_exit calls for an image:
\* the field count is 3 or 4 and neither .pop() finds its list empty
Found(order, files, vmlinuz) ==
    /\ Len(Split(vmlinuz, "-")) \in {3, 4}
    /\ SystemMapsOf(order, files, vmlinuz) # <<>>
    /\ ConfigsOf(order, files, vmlinuz) # <<>>

\* list.pop(): the last element
Pop(l) == l[Len(l)]

\* a faulty variant of RecordOf: the first candidate is taken, not the last
RecordOfFirst(order, files, vmlinuz) ==
    VersionInfo(TripleOf(vmlinuz), vmlinuz,
                Head(SystemMapsOf(order, files, vmlinuz)),
                Head(ConfigsOf(order, files, vmlinuz)),
                IsOldOf(vmlinuz), RcOf(vmlinuz))

\* the record the loop body appends for an image
RecordOf(order, files, vmlinuz) ==
    VersionInfo(TripleOf(vmlinuz), vmlinuz,
                Pop(SystemMapsOf(order, files, vmlinuz)),
                Pop(ConfigsOf(order, files, vmlinuz)),
                IsOldOf(vmlinuz), RcOf(vmlinuz))

\* the elements of a set as a list, in some order
RECURSIVE SetToSeq(_)
SetToSeq(S) ==
    IF S = {} THEN <<>>
    ELSE LET x == CHOOSE y \in S : TRUE IN <<x>> \o SetToSeq(S \ {x})

\* the list the loop builds from the images it visits
Built(order, files, images) ==
    LET l == SetToSeq(images)
    IN  [i \in 1..Len(l) |-> RecordOf(order, files, l[i])]

\* a faulty variant of find_installed_kernels: the list is left as the loop built it
find_installed_kernels_unsorted(return_to) ==
    LET vmlinuzes == glob_vmlinuz(fs)
        found == {v \in vmlinuzes : Found(dir_order, fs, v)}
    IN  /\ current_kernels' = Built(dir_order, fs, found)
        /\ pc' = IF found = vmlinuzes THEN return_to ELSE "exit1"

\* a faulty variant of find_installed_kernels: an image without a sibling is skipped
find_installed_kernels_skip(return_to) ==
    LET vmlinuzes == glob_vmlinuz(fs)
        l == Built(dir_order, fs, {v \in vmlinuzes : Found(dir_order, fs, v)})
    IN  IF SortOk(l)
        THEN current_kernels' = SortedDesc(l) /\ pc' = return_to
        ELSE current_kernels' = l /\ pc' = "crash"

\* KernelUpdater.__find_installed_kernels, from the reset of the list to the
\* sort.  An image that fails a check ends the program in error_and_exit, with
\* the records of the images visited before it in the list (the images come in
\* directory order, so any of the others may have been visited); an int()
\* that fails in as_tuple during the sort raises ValueError, which nothing
\* catches.
find_installed_kernels(return_to) ==
    LET vmlinuzes == glob_vmlinuz(fs)
        found == {v \in vmlinuzes : Found(dir_order, fs, v)}
    IN  IF found # vmlinuzes
        THEN \E visited \in SUBSET found :
               /\ current_kernels' = Built(dir_order, fs, visited)
               /\ pc' = "exit1"
        ELSE LET l == Built(dir_order, fs, vmlinuzes)
             IN  IF SortOk(l)
                 THEN current_kernels' = SortedDesc(l) /\ pc' = return_to
                 ELSE current_kernels' = l /\ pc' = "crash"

\* KernelUpdater.__init__: the fields are set from the arguments
\* (versions_to_keep is the string configparser read, the same in every run),
\* then the first scan runs
Construct ==
    /\ pc = "start"
    /\ IF runs = 1
       THEN \E K \in 1..MaxKeep : versions_to_keep' = Digits(K)
       ELSE UNCHANGED versions_to_keep
    /\ find_installed_kernels("ready")
    /\ UNCHANGED <<fs, dir_order, num_left, todo, removing, removed, log, cmp, settings, steps, runs>>

-----------------------------------------------------------------------------
(* update() up to its first step, and the retention pass: __clean_up, remove *)

\* a step of update() has started; cmd is the collaborator call that returned
\* a failed status, or "" if none did
Step(step, cmd) == [step |-> step, cmd |-> cmd, ok |-> cmd = ""]

\* a faulty variant of Update: the configuration is synced in manual mode too
UpdateAlwaysSync ==
    /\ pc = "ready"
    /\ \E is_root \in BOOLEAN :
         pc' = IF ~is_root THEN "exit1"
               ELSE IF settings.clean_only THEN "clean_up"
               ELSE "update_config"
    /\ UNCHANGED <<fs, dir_order, versions_to_keep, current_kernels, num_left, todo, removing,
                   removed, log, cmp, settings, steps, runs>>

\* update(): __check_perm, then the choice of the first step: __clean_up in
\* clean-only mode, __compile_kernel in manual mode, __update_config otherwise
Update ==
    /\ pc = "ready"
    /\ \E is_root \in BOOLEAN :
         pc' = IF ~is_root THEN "exit1"
               ELSE IF settings.clean_only THEN "clean_up"
               ELSE IF settings.manual_edit THEN "compile_kernel"
               ELSE "update_config"
    /\ UNCHANGED <<fs, dir_order, versions_to_keep, current_kernels, num_left, todo, removing,
                   removed, log, cmp, settings, steps, runs>>

\* __clean_up starts with its own scan
CleanUpScan ==
    /\ pc = "clean_up"
    /\ find_installed_kernels("threshold")
    /\ steps' = Append(steps, Step("clean_up", ""))
    /\ UNCHANGED <<fs, dir_order, versions_to_keep, num_left, todo, removing, removed, log,
                   cmp, settings, runs>>

\* where update() goes on when __clean_up returns: it returns in clean-only
\* mode, and runs __grub_mk_config if RegenerateGrubConfig is set
AfterCleanUp ==
    IF ~settings.clean_only /\ settings.gen_grub_config THEN "grub_mk_config" ELSE "done"

\* a faulty variant of CleanUpThreshold: one record fewer is kept
CleanUpThresholdKeepOne ==
    /\ pc = "threshold"
    /\ IF Len(current_kernels) <= Len(versions_to_keep)
       THEN pc' = AfterCleanUp /\ UNCHANGED <<current_kernels, num_left>>
       ELSE /\ current_kernels' = SortedDesc(current_kernels)
            /\ num_left' = Len(current_kernels) - 1
            /\ pc' = "loop"
    /\ UNCHANGED <<fs, dir_order, versions_to_keep, todo, removing, removed, log, cmp, settings, steps, runs>>

\* __clean_up after its scan: the early return, or print_installed_kernels
\* (which sorts again) and num_to_delete
CleanUpThreshold ==
    /\ pc = "threshold"
    /\ IF Len(current_kernels) <= Len(versions_to_keep)
       THEN pc' = AfterCleanUp /\ UNCHANGED <<current_kernels, num_left>>
       ELSE /\ current_kernels' = SortedDesc(current_kernels)
            /\ num_left' = Len(current_kernels) - 2
            /\ pc' = "loop"
    /\ UNCHANGED <<fs, dir_order, versions_to_keep, todo, removing, removed, log, cmp, settings, steps, runs>>

\* the path no rm is issued for: int(self.release_candidate_num) raised
Raise == <<"raise", "ValueError">>

\* the rm commands VersionInfo.remove issues, in order
remove_cmds(v) ==
    LET source_dir ==
            <<"linux", "-">> \o v.version_triple \o <<"-", "gentoo">>
        modules_dir == <<"modules", "/">> \o v.version_triple \o <<"-", "gentoo">>
    IN  <<v.vmlinuz, v.system_map, v.config>>
        \o (IF ~CanInt(v.release_candidate_num) THEN <<Raise>>
            ELSE <<IF ToInt(v.release_candidate_num) > 0
                   THEN source_dir \o <<"-", "r">> \o v.release_candidate_num
                   ELSE source_dir>>
                 \o (IF ~v.is_old THEN <<modules_dir>> ELSE <<>>))

\* one iteration of the loop starts: self.__current_kernels.pop().remove(...)
CleanUpPop ==
    /\ pc = "loop"
    /\ num_left > 0
    /\ LET v == current_kernels[Len(current_kernels)]
       IN  /\ current_kernels' = SubSeq(current_kernels, 1, Len(current_kernels) - 1)
           /\ removing' = <<v>>
           /\ removed' = Append(removed, v)
           /\ todo' = remove_cmds(v)
    /\ num_left' = num_left - 1
    /\ pc' = "remove"
    /\ UNCHANGED <<fs, dir_order, versions_to_keep, log, cmp, settings, steps, runs>>

\* a faulty variant of Rm: the path is reported deleted and is left in place
RmKeeps ==
    /\ pc = "remove"
    /\ todo # <<>>
    /\ LET f == Head(todo)
       IN  IF f \in fs
           THEN /\ todo' = Tail(todo)
                /\ log' = Append(log, [rec |-> removing[1], target |-> f, ok |-> TRUE,
                                       run |-> runs])
                /\ pc' = IF Tail(todo) = <<>> THEN "loop" ELSE "remove"
                /\ UNCHANGED fs
           ELSE /\ log' = Append(log, [rec |-> removing[1], target |-> f, ok |-> FALSE,
                                       run |-> runs])
                /\ pc' = "crash"
                /\ UNCHANGED <<fs, todo>>
    /\ UNCHANGED <<dir_order, versions_to_keep, current_kernels, num_left,
                   removing, removed, cmp, settings, steps, runs>>

\* subprocess.run(["rm", "-r", f], check=True): rm fails on a path that does
\* not exist, and the CalledProcessError is caught nowhere
Rm ==
    /\ pc = "remove"
    /\ todo # <<>>
    /\ LET f == Head(todo)
       IN  IF f \in fs
           THEN /\ fs' = fs \ {f}
                /\ todo' = Tail(todo)
                /\ log' = Append(log, [rec |-> removing[1], target |-> f, ok |-> TRUE,
                                       run |-> runs])
                /\ pc' = IF Tail(todo) = <<>> THEN "loop" ELSE "remove"
           ELSE /\ log' = Append(log, [rec |-> removing[1], target |-> f, ok |-> FALSE,
                                       run |-> runs])
                /\ pc' = "crash"
                /\ UNCHANGED <<fs, todo>>
    /\ UNCHANGED <<dir_order, versions_to_keep, current_kernels, num_left,
                   removing, removed, cmp, settings, steps, runs>>

\* the loop is over: __clean_up returns
CleanUpReturn ==
    /\ pc = "loop"
    /\ num_left <= 0
    /\ pc' = AfterCleanUp
    /\ UNCHANGED <<fs, dir_order, versions_to_keep, current_kernels, num_left,
                   todo, removing, removed, log, cmp, settings, steps, runs>>

-----------------------------------------------------------------------------
(* The program *)

\* a record as test.py constructs it
TestRecord(v, rc, old) ==
    VersionInfo(VerStr(v), BootName("vmlinuz", <<v, rc, old>>),
                BootName("System.map", <<v, rc, old>>),
                BootName("config", <<v, rc, old>>), old, Digits(rc))

\* the versions test.py compares
TestVersions == {<<4, 7, 10>>, <<5, 6, 10>>, <<5, 7, 9>>, <<5, 7, 10>>}

\* what the records under comparison are made from
TestKeys == TestVersions \X (0..MaxRC) \X BOOLEAN

\* the comparison harness before its inputs are drawn
CmpIdle ==
    LET k == <<<<5, 7, 10>>, 0, FALSE>>
        r == TestRecord(k[1], k[2], k[3])
    IN  [ka |-> k, kb |-> k, kc |-> k, a |-> r, b |-> r, c |-> r, stage |-> "idle",
         gt_ab |-> FALSE, gt_ba |-> FALSE, lt_ab |-> FALSE, eq_ab |-> FALSE,
         gt_bc |-> FALSE, gt_ac |-> FALSE]

\* the permutations of a set, as lists
RECURSIVE Perms(_)
Perms(S) ==
    IF S = {} THEN {<<>>}
    ELSE UNION {{<<x>> \o p : p \in Perms(S \ {x})} : x \in S}

\* the elements of a list
Range(l) == {l[i] : i \in 1..Len(l)}

\* what the scan of `files` takes from a directory order of the System.map
\* files: the System.map each image ends up with (<<>>: none)
TakenSystemMaps(order, files) ==
    [v \in glob_vmlinuz(files) |->
       IF SystemMapsOf(order, files, v) = <<>> THEN <<>>
       ELSE Pop(SystemMapsOf(order, files, v))]

\* the same for the config files
TakenConfigs(order, files) ==
    [v \in glob_vmlinuz(files) |->
       IF ConfigsOf(order, files, v) = <<>> THEN <<>>
       ELSE Pop(ConfigsOf(order, files, v))]

\* the orders of the System.map files, one for each way the scan can come
\* out: the order matters among the files that are candidates together
SystemMapOrders(files) ==
    LET all == {p \in files : StartsWith(p, <<"System.map">>)}
        any == SetToSeq(all)
        together == UNION {Range(c) : c \in {l \in {SystemMapsOf(any, files, v) :
                                                       v \in glob_vmlinuz(files)} : Len(l) > 1}}
        orders == {SetToSeq(all \ together) \o p : p \in Perms(together)}
    IN  {CHOOSE o \in orders : TakenSystemMaps(o, files) = t :
           t \in {TakenSystemMaps(o, files) : o \in orders}}

\* the orders of the config files, one for each way the scan can come out
ConfigOrders(files) ==
    LET all == {p \in files : StartsWith(p, <<"config">>)}
        any == SetToSeq(all)
        together == UNION {Range(c) : c \in {l \in {ConfigsOf(any, files, v) :
                                                       v \in glob_vmlinuz(files)} : Len(l) > 1}}
        orders == {SetToSeq(all \ together) \o p : p \in Perms(together)}
    IN  {CHOOSE o \in orders : TakenConfigs(o, files) = t :
           t \in {TakenConfigs(o, files) : o \in orders}}

\* the directory orders of `files`, one for each way the scan can come out
DirOrders(files) ==
    {m \o c : m \in SystemMapOrders(files), c \in ConfigOrders(files)}

\* the program is run with --clean-only: the other settings are not read
CleanOnly ==
    [clean_only |-> TRUE, manual_edit |-> FALSE, emerge_module_rebuild |-> FALSE,
     gen_grub_config |-> FALSE, kernel_source |-> <<<<5, 8, 0>>, 0, FALSE>>]

\* the program is run again, from its start, once it has returned
Rerun ==
    /\ pc = "done"
    /\ runs < MaxRuns
    /\ runs' = runs + 1
    /\ pc' = "start"
    /\ current_kernels' = <<>>
    /\ removed' = <<>>
    /\ steps' = <<>>
    /\ UNCHANGED <<fs, dir_order, versions_to_keep, num_left, todo, removing, log, cmp, settings>>

\* clean-only runs: the install directory holds the files of at most
\* MaxKernels kernels, with their source and module directories; at most one
\* System.map or config is missing; the directory lists its files in any order
Init ==
    /\ \E S \in SUBSET Keys :
         /\ Cardinality(S) <= MaxKernels
         /\ \E Miss \in {{}} \cup {{f} : f \in SiblingFiles(S)} :
              fs = (BootFiles(S) \ Miss) \cup Dirs(S)
    /\ dir_order \in DirOrders(fs)
    /\ versions_to_keep = <<>>
    /\ current_kernels = <<>>
    /\ pc = "start"
    /\ num_left = 0
    /\ todo = <<>>
    /\ removing = <<>>
    /\ removed = <<>>
    /\ log = <<>>
    /\ cmp = CmpIdle
    /\ settings = CleanOnly
    /\ steps = <<>>
    /\ runs = 1

Next ==
    \/ Construct
    \/ Update
    \/ CleanUpScan
    \/ CleanUpThreshold
    \/ CleanUpPop
    \/ Rm
    \/ CleanUpReturn
    \/ Rerun

Spec == Init /\ [][Next]_vars

-----------------------------------------------------------------------------
(* update() in full: the build steps around the retention pass *)

\* the collaborator call returns a status: success, or the failure that
\* check=True turns into CalledProcessError
Statuses == BOOLEAN

\* __update_config: the newest record's config is copied to .config
\* (self.__current_kernels[0] raises IndexError on an empty list, which
\* nothing catches), then `make oldconfig`, whose failure ends in
\* error_and_exit
UpdateConfig ==
    /\ pc = "update_config"
    /\ IF current_kernels = <<>>
       THEN /\ steps' = Append(steps, Step("update_config", ""))
            /\ pc' = "crash"
       ELSE \E status \in Statuses :
              /\ steps' = Append(steps, Step("update_config",
                                             IF status THEN "" ELSE "make oldconfig"))
              /\ pc' = IF status THEN "compile_kernel" ELSE "exit1"
    /\ UNCHANGED <<fs, dir_order, versions_to_keep, current_kernels, num_left, todo, removing,
                   removed, log, cmp, settings, runs>>

\* a faulty variant of CompileKernel: a failed make is not looked at
CompileKernelUnchecked ==
    /\ pc = "compile_kernel"
    /\ \E status \in Statuses :
         /\ steps' = Append(steps, Step("compile_kernel", IF status THEN "" ELSE "make"))
         /\ pc' = "install_new_kernel"
    /\ UNCHANGED <<fs, dir_order, versions_to_keep, current_kernels, num_left, todo, removing,
                   removed, log, cmp, settings, runs>>

\* __compile_kernel: `make`, whose failure ends in error_and_exit
CompileKernel ==
    /\ pc = "compile_kernel"
    /\ \E status \in Statuses :
         /\ steps' = Append(steps, Step("compile_kernel", IF status THEN "" ELSE "make"))
         /\ pc' = IF status THEN "install_new_kernel" ELSE "exit1"
    /\ UNCHANGED <<fs, dir_order, versions_to_keep, current_kernels, num_left, todo, removing,
                   removed, log, cmp, settings, runs>>

\* what `make modules_install` leaves: the module directory of the kernel built
ModulesInstalled(files, built) == files \cup {ModulesDir(built[1], built[2])}

\* what `make install` leaves in the install directory: the image, System.map
\* and config of the kernel built, and under the name with .old each file
\* that had the new file's name (the .old generation the scan expects)
Installed(files, built) ==
    LET old == <<built[1], built[2], TRUE>>
    IN  files \cup BootFiles({built})
              \cup {BootName(kind, old) : kind \in {k \in Kinds : BootName(k, built) \in files}}

\* where update() goes on when __install_new_kernel returns
AfterInstall ==
    IF settings.emerge_module_rebuild THEN "recompile_extra_modules" ELSE "clean_up"

\* __install_new_kernel: `make modules_install`, then `make install` with
\* INSTALL_PATH; the failure of either ends in error_and_exit.  The directory
\* lists the files it then holds in any order.
InstallNewKernel ==
    /\ pc = "install_new_kernel"
    /\ \/ /\ steps' = Append(steps, Step("install_new_kernel", "make modules_install"))
          /\ pc' = "exit1"
          /\ UNCHANGED <<fs, dir_order>>
       \/ /\ steps' = Append(steps, Step("install_new_kernel", "make install"))
          /\ pc' = "exit1"
          /\ fs' = ModulesInstalled(fs, settings.kernel_source)
          /\ UNCHANGED dir_order
       \/ /\ steps' = Append(steps, Step("install_new_kernel", ""))
          /\ pc' = AfterInstall
          /\ fs' = Installed(ModulesInstalled(fs, settings.kernel_source),
                             settings.kernel_source)
          /\ dir_order' \in DirOrders(fs')
    /\ UNCHANGED <<versions_to_keep, current_kernels, num_left, todo, removing,
                   removed, log, cmp, settings, runs>>

\* __recompile_extra_modules: `emerge @module-rebuild`, whose failure ends in
\* error_and_exit
RecompileExtraModules ==
    /\ pc = "recompile_extra_modules"
    /\ \E status \in Statuses :
         /\ steps' = Append(steps, Step("recompile_extra_modules",
                                        IF status THEN "" ELSE "emerge @module-rebuild"))
         /\ pc' = IF status THEN "clean_up" ELSE "exit1"
    /\ UNCHANGED <<fs, dir_order, versions_to_keep, current_kernels, num_left, todo, removing,
                   removed, log, cmp, settings, runs>>

\* __grub_mk_config: `grub-mkconfig`, whose failure ends in error_and_exit;
\* update() then returns
GrubMkConfig ==
    /\ pc = "grub_mk_config"
    /\ \E status \in Statuses :
         /\ steps' = Append(steps, Step("grub_mk_config",
                                        IF status THEN "" ELSE "grub-mkconfig"))
         /\ pc' = IF status THEN "done" ELSE "exit1"
    /\ UNCHANGED <<fs, dir_order, versions_to_keep, current_kernels, num_left, todo, removing,
                   removed, log, cmp, settings, runs>>

\* the kernels whose source tree KernelSourcePath may hold
BuildKeys == {<<<<5, 7, 9>>, 1, FALSE>>, <<<<5, 7, 10>>, 0, FALSE>>, <<<<5, 8, 0>>, 0, FALSE>>}

\* the command line (--clean-only, --manual-edit) and the settings
\* (EmergeModuleRebuild, RegenerateGrubConfig, KernelSourcePath)
Settings ==
    {CleanOnly} \cup [clean_only : {FALSE}, manual_edit : BOOLEAN,
                      emerge_module_rebuild : BOOLEAN, gen_grub_config : BOOLEAN,
                      kernel_source : BuildKeys]

\* the kernels installed before a build
UpdateKeys == {<<<<5, 7, 9>>, 0, FALSE>>, <<<<5, 7, 9>>, 1, FALSE>>, <<<<5, 7, 10>>, 0, FALSE>>}

\* an image whose name has five fields between its "-"
Stray == <<"vmlinuz", "-", "5", ".", "7", ".", "1", "-", "gentoo", "-", "r", "1", "-", "old">>

\* runs in every mode: the install directory holds the files of some of
\* UpdateKeys, perhaps with the stray image, and the source tree to build exists
UpdateInit ==
    /\ settings \in Settings
    /\ \E S \in SUBSET UpdateKeys, stray \in SUBSET {Stray} :
         fs = BootFiles(S) \cup Dirs(S) \cup stray
              \cup {SourceDir(settings.kernel_source[1], settings.kernel_source[2])}
    /\ dir_order \in DirOrders(fs)
    /\ versions_to_keep = <<>>
    /\ current_kernels = <<>>
    /\ pc = "start"
    /\ num_left = 0
    /\ todo = <<>>
    /\ removing = <<>>
    /\ removed = <<>>
    /\ log = <<>>
    /\ cmp = CmpIdle
    /\ steps = <<>>
    /\ runs = 1

UpdateNext ==
    \/ Construct
    \/ Update
    \/ UpdateConfig
    \/ CompileKernel
    \/ InstallNewKernel
    \/ RecompileExtraModules
    \/ CleanUpScan
    \/ CleanUpThreshold
    \/ CleanUpPop
    \/ Rm
    \/ CleanUpReturn
    \/ GrubMkConfig

UpdateSpec == UpdateInit /\ [][UpdateNext]_vars

-----------------------------------------------------------------------------
(* The comparison of records, as test.py exercises it *)

\* three records are constructed; nothing else of the program runs
CmpInit ==
    /\ fs = {}
    /\ dir_order = <<>>
    /\ versions_to_keep = <<>>
    /\ current_kernels = <<>>
    /\ pc = "test"
    /\ num_left = 0
    /\ todo = <<>>
    /\ removing = <<>>
    /\ removed = <<>>
    /\ log = <<>>
    /\ settings = CleanOnly
    /\ steps = <<>>
    /\ runs = 1
    /\ \E ka \in TestKeys, kb \in TestKeys, kc \in TestKeys :
         cmp = [CmpIdle EXCEPT !.ka = ka, !.kb = kb, !.kc = kc,
                               !.a = TestRecord(ka[1], ka[2], ka[3]),
                               !.b = TestRecord(kb[1], kb[2], kb[3]),
                               !.c = TestRecord(kc[1], kc[2], kc[3]),
                               !.stage = "input"]

\* the comparisons: __gt__, __lt__ and __eq__ on the records
Compare ==
    /\ cmp.stage = "input"
    /\ cmp' = [cmp EXCEPT !.stage = "compared",
                          !.gt_ab = Gt(cmp.a, cmp.b),
                          !.gt_ba = Gt(cmp.b, cmp.a),
                          !.lt_ab = Lt(cmp.a, cmp.b),
                          !.eq_ab = Eq(cmp.a, cmp.b),
                          !.gt_bc = Gt(cmp.b, cmp.c),
                          !.gt_ac = Gt(cmp.a, cmp.c)]
    /\ UNCHANGED <<fs, dir_order, versions_to_keep, current_kernels, pc, num_left,
                   todo, removing, removed, log, settings, steps, runs>>

CmpNext == Compare

CmpSpec == CmpInit /\ [][CmpNext]_vars

-----------------------------------------------------------------------------
(* Claims about the ordering *)

\* the integer tuple (major, minor, patch, releaseCandidate, old-adjustment)
\* of what a record was made from
KeyTuple(k) == <<k[1][1], k[1][2], k[1][3], k[2], IF k[3] THEN -1 ELSE 0>>

\* the lexicographic order on integer tuples of length five, spelled out
LexGreater(s, t) ==
    \/ s[1] > t[1]
    \/ s[1] = t[1] /\ s[2] > t[2]
    \/ s[1] = t[1] /\ s[2] = t[2] /\ s[3] > t[3]
    \/ s[1] = t[1] /\ s[2] = t[2] /\ s[3] = t[3] /\ s[4] > t[4]
    \/ s[1] = t[1] /\ s[2] = t[2] /\ s[3] = t[3] /\ s[4] = t[4] /\ s[5] > t[5]

\* C4: the comparison of two records is the lexicographic order on their
\* integer tuples (major, minor, patch, releaseCandidate, old-adjustment), the
\* fields compared as numbers: A > B exactly when A's tuple is greater, A < B
\* exactly when B's is, A == B exactly when the tuples are equal; hence the
\* record that is not .old is greater than the .old record of the same
\* version and release candidate, exactly one of A > B, B > A, A == B holds,
\* and A > B and B > C imply A > C.
C4_Ordering ==
    cmp.stage = "compared" =>
        /\ cmp.gt_ab <=> LexGreater(KeyTuple(cmp.ka), KeyTuple(cmp.kb))
        /\ cmp.gt_ba <=> LexGreater(KeyTuple(cmp.kb), KeyTuple(cmp.ka))
        /\ cmp.lt_ab <=> LexGreater(KeyTuple(cmp.kb), KeyTuple(cmp.ka))
        /\ cmp.eq_ab <=> (KeyTuple(cmp.ka) = KeyTuple(cmp.kb))
        /\ (cmp.ka[1] = cmp.kb[1] /\ cmp.ka[2] = cmp.kb[2] /\ ~cmp.ka[3] /\ cmp.kb[3])
              => cmp.gt_ab
        /\ Cardinality({x \in {"gt", "lt", "eq"} :
                          \/ x = "gt" /\ cmp.gt_ab
                          \/ x = "lt" /\ cmp.gt_ba
                          \/ x = "eq" /\ cmp.eq_ab}) = 1
        /\ (cmp.gt_ab /\ cmp.gt_bc) => cmp.gt_ac

\* patch 10 against patch 9, then the record against its own .old, compared
C4_Witness ==
    /\ cmp.stage = "compared"
    /\ cmp.ka = <<<<5, 7, 10>>, 0, FALSE>>
    /\ cmp.kb = <<<<5, 7, 9>>, 0, FALSE>>
    /\ cmp.kc = <<<<5, 7, 9>>, 0, TRUE>>
    /\ cmp.gt_ab /\ cmp.gt_bc /\ cmp.gt_ac

\* C5 as the spec states it: 5.7.10 > 5.6.10 and 5.6.10 > 5.7.9
C5_AsStated ==
    (/\ cmp.stage = "compared"
     /\ cmp.ka = <<<<5, 7, 10>>, 0, FALSE>>
     /\ cmp.kb = <<<<5, 6, 10>>, 0, FALSE>>
     /\ cmp.kc = <<<<5, 7, 9>>, 0, FALSE>>)
    => (cmp.gt_ab /\ cmp.gt_bc)

\* C5, amended: 5.7.10 > 5.7.9 and 5.7.9 > 5.6.10 (and so 5.7.10 > 5.6.10),
\* all three not .old and not release candidates: the minor field decides
\* before the patch field does
C5_Dominance ==
    (/\ cmp.stage = "compared"
     /\ cmp.ka = <<<<5, 7, 10>>, 0, FALSE>>
     /\ cmp.kb = <<<<5, 7, 9>>, 0, FALSE>>
     /\ cmp.kc = <<<<5, 6, 10>>, 0, FALSE>>)
    => (cmp.gt_ab /\ cmp.gt_bc /\ cmp.gt_ac)

\* the three records of the chain, compared
C5_Witness ==
    /\ cmp.stage = "compared"
    /\ cmp.ka = <<<<5, 7, 10>>, 0, FALSE>>
    /\ cmp.kb = <<<<5, 7, 9>>, 0, FALSE>>
    /\ cmp.kc = <<<<5, 6, 10>>, 0, FALSE>>

-----------------------------------------------------------------------------
(* Claims about the scan and the retention pass *)

\* the rm commands issued in the current run
RunLog == SelectSeq(log, LAMBDA e : e.run = runs)

\* the retention pass has scanned: it is deciding, deleting, or has ended
InPass ==
    \/ pc \in {"threshold", "loop", "remove", "done"}
    \/ pc = "crash" /\ RunLog # <<>>

\* the reverse of a list
Reverse(l) == [i \in 1..Len(l) |-> l[Len(l) + 1 - i]]

\* the records the pass scanned, newest first; N is their number
Scanned == current_kernels \o Reverse(removed)

\* the configured keep-count K
KeepCount == ToInt(versions_to_keep)

\* the records that stay: those the loop will not pop
Kept == SubSeq(current_kernels, 1, Len(current_kernels) - num_left)

\* "X.Y.Z-gentoo[-rN]" of a record: its image name without "vmlinuz-" and ".old"
ReleaseOf(v) ==
    LET name == SubSeq(v.vmlinuz, 3, Len(v.vmlinuz))
    IN  IF EndsWith(name, DotOld) THEN SubSeq(name, 1, Len(name) - 2) ELSE name

\* the module directory of a record's version
ModuleDirOf(v) == <<"modules", "/">> \o ReleaseOf(v)

\* the files and directories that belong to a record
ArtifactsOf(v) ==
    {v.vmlinuz, v.system_map, v.config, <<"linux", "-">> \o ReleaseOf(v), ModuleDirOf(v)}

\* the paths the pass has deleted
Deleted == {RunLog[i].target : i \in {j \in 1..Len(RunLog) : RunLog[j].ok}}

\* C1 as the spec states it: a pass over N records with keep-count K,
\* 1 <= K < N, that has ended has removed exactly N - K records, every one of
\* them older than every record that stays, and the K newest stay.
C1_AsStated ==
    (pc = "done" /\ 1 <= KeepCount /\ KeepCount < Len(Scanned)) =>
        /\ Len(removed) = Len(Scanned) - KeepCount
        /\ current_kernels = SubSeq(Scanned, 1, KeepCount)
        /\ \A i \in 1..Len(current_kernels), j \in 1..Len(removed) :
             Gt(current_kernels[i], removed[j])

\* C2 as the spec states it: nothing the pass deletes belongs to a record
\* that stays.
C2_AsStated ==
    InPass => \A i \in 1..Len(Kept) : ArtifactsOf(Kept[i]) \cap Deleted = {}

\* C3 as the spec states it: a pass over N <= K records deletes nothing.
C3_AsStated ==
    (InPass /\ Len(Scanned) <= KeepCount) => (RunLog = <<>> /\ removed = <<>>)

\* the records whose remove() has ended, by return or by exception
Ended ==
    IF pc = "remove" THEN SubSeq(removed, 1, Len(removed) - 1) ELSE removed

\* C6 as the spec states it: removing a .old record issues no deletion of a
\* module directory, and once a record that is not .old has been removed the
\* module directory of its version is gone.
C6_AsStated ==
    /\ \A i \in 1..Len(log) :
         log[i].rec.is_old => ~StartsWith(log[i].target, <<"modules">>)
    /\ \A i \in 1..Len(Ended) :
         ~Ended[i].is_old => ModuleDirOf(Ended[i]) \notin fs

\* C7 as the spec states it: a deletion that fails does not end the pass
\* while an artifact of the record, or another selected record, is left.
C7_AsStated ==
    (log # <<>> /\ ~log[Len(log)].ok /\ (Len(todo) > 1 \/ num_left > 0))
        => pc # "crash"

\* the boot files of one kind that encode the X.Y.Z field and the generation
\* (.old or not) of an image
SiblingsOf(vmlinuz, kind) ==
    {p \in fs : StartsWith(p, <<kind, "-">>)
                 /\ Split(p, "-")[2] = Split(vmlinuz, "-")[2]
                 /\ (EndsWith(p, DotOld) <=> EndsWith(vmlinuz, DotOld))}

\* a scan has returned to its caller
ScanReturned == pc \in {"ready", "threshold"}

\* C8 as the spec states it: a scan returns only if every image has a
\* System.map and a config of its version and generation, and no record is
\* built for an image that lacks one.
C8_AsStated ==
    /\ ScanReturned =>
         \A v \in glob_vmlinuz(fs) :
           SiblingsOf(v, "System.map") # {} /\ SiblingsOf(v, "config") # {}
    /\ pc = "exit1" =>
         \A i \in 1..Len(current_kernels) :
           /\ SiblingsOf(current_kernels[i].vmlinuz, "System.map") # {}
           /\ SiblingsOf(current_kernels[i].vmlinuz, "config") # {}

\* C9 as the spec states it: a scan returns only if no image has more than
\* one System.map, or more than one config, of its version and generation.
C9_AsStated ==
    ScanReturned =>
        \A v \in glob_vmlinuz(fs) :
          /\ Cardinality(SiblingsOf(v, "System.map")) <= 1
          /\ Cardinality(SiblingsOf(v, "config")) <= 1

\* the kernels of the end-to-end scenario, newest first
ScenarioKeys ==
    <<  <<<<5, 8, 0>>, 0, FALSE>>, <<<<5, 7, 10>>, 0, FALSE>>,
        <<<<5, 7, 10>>, 0, TRUE>>, <<<<5, 7, 9>>, 0, FALSE>>  >>

\* the run is the end-to-end scenario: these four kernels, keep-count 2
InScenario ==
    /\ fs \cup Deleted = BootFiles(Range(ScenarioKeys)) \cup Dirs(Range(ScenarioKeys))
    /\ versions_to_keep = <<"2">>

\* the images of a list of records
Images(l) == [i \in 1..Len(l) |-> l[i].vmlinuz]

\* the image names of some of the scenario's kernels
ScenarioImages(which) == [i \in 1..Len(which) |-> BootName("vmlinuz", ScenarioKeys[which[i]])]

\* C10: in the scenario the scan yields [5.8.0, 5.7.10, 5.7.10.old, 5.7.9],
\* the pass does not break off, and when it has ended it has removed exactly
\* 5.7.9 and 5.7.10.old and kept 5.8.0 and 5.7.10, whose boot files exist.
C10_Scenario ==
    InScenario =>
        /\ pc # "crash"
        /\ pc \in {"ready", "clean_up", "threshold"} =>
             Images(current_kernels) = ScenarioImages(<<1, 2, 3, 4>>)
        /\ pc = "done" =>
             /\ Images(removed) = ScenarioImages(<<4, 3>>)
             /\ Images(current_kernels) = ScenarioImages(<<1, 2>>)
             /\ glob_vmlinuz(fs) = Range(ScenarioImages(<<1, 2>>))
             /\ \A i \in 1..2 : {current_kernels[i].system_map, current_kernels[i].config} \subseteq fs

\* the scenario's pass has ended with two records removed
C10_Witness ==
    /\ InScenario
    /\ pc = "done"
    /\ Len(removed) = 2
    /\ Len(log) = 9

-----------------------------------------------------------------------------
(* Concrete runs *)

\* the paths a set of kernels starts with
LayoutOf(S) == BootFiles(S) \cup Dirs(S)

\* the paths the run started with
Fs0 == fs \cup Deleted

\* 5.7.9 and 5.7.10 with VersionsToKeep = 1: the pass ends with both kept
Run_C1 ==
    ~(/\ Fs0 = LayoutOf({<<<<5, 7, 10>>, 0, FALSE>>, <<<<5, 7, 9>>, 0, FALSE>>})
      /\ versions_to_keep = <<"1">> /\ pc = "done" /\ removed = <<>>)

\* 5.8.0, 5.7.10 and 5.7.10.old: the pass ends with 5.7.10 kept and its
\* source directory deleted
Run_C2 ==
    ~(/\ Fs0 = LayoutOf({<<<<5, 8, 0>>, 0, FALSE>>, <<<<5, 7, 10>>, 0, FALSE>>,
                         <<<<5, 7, 10>>, 0, TRUE>>})
      /\ pc = "done"
      /\ Images(current_kernels) = <<BootName("vmlinuz", <<<<5, 8, 0>>, 0, FALSE>>),
                                     BootName("vmlinuz", <<<<5, 7, 10>>, 0, FALSE>>)>>
      /\ SourceDir(<<5, 7, 10>>, 0) \notin fs)

\* 5.7.9, 5.7.10 and 5.8.0 with VersionsToKeep = 3: 5.7.9 is removed
Run_C3 ==
    ~(/\ Fs0 = LayoutOf({<<<<5, 8, 0>>, 0, FALSE>>, <<<<5, 7, 10>>, 0, FALSE>>,
                         <<<<5, 7, 9>>, 0, FALSE>>})
      /\ versions_to_keep = <<"3">> /\ pc = "done"
      /\ Images(removed) = <<BootName("vmlinuz", <<<<5, 7, 9>>, 0, FALSE>>)>>)

\* 5.8.0, 5.7.10 and 5.7.9-r1: removing 5.7.9-r1 asks for modules/5.7.9-gentoo,
\* fails, and leaves modules/5.7.9-gentoo-r1
Run_C6 ==
    ~(/\ Fs0 = LayoutOf({<<<<5, 8, 0>>, 0, FALSE>>, <<<<5, 7, 10>>, 0, FALSE>>,
                         <<<<5, 7, 9>>, 1, FALSE>>})
      /\ pc = "crash"
      /\ log[Len(log)].target = ModulesDir(<<5, 7, 9>>, 0)
      /\ ModulesDir(<<5, 7, 9>>, 1) \in fs)

\* 5.8.0, 5.7.10, 5.7.9-r1 and 5.7.9: the second removal fails at its
\* System.map and the pass ends with three deletions not attempted
Run_C7 ==
    ~(/\ Fs0 = LayoutOf({<<<<5, 8, 0>>, 0, FALSE>>, <<<<5, 7, 10>>, 0, FALSE>>,
                         <<<<5, 7, 9>>, 1, FALSE>>, <<<<5, 7, 9>>, 0, FALSE>>})
      /\ pc = "crash"
      /\ Len(removed) = 2
      /\ Len(todo) = 4)

\* 5.8.0 and 15.8.0 without config-5.8.0-gentoo: the scan returns, and the
\* record of 5.8.0 holds config-15.8.0-gentoo
Run_C8 ==
    ~(/\ fs = LayoutOf({<<<<5, 8, 0>>, 0, FALSE>>, <<<<15, 8, 0>>, 0, FALSE>>})
              \ {BootName("config", <<<<5, 8, 0>>, 0, FALSE>>)}
      /\ pc = "ready"
      /\ \E i \in 1..Len(current_kernels) :
           /\ current_kernels[i].vmlinuz = BootName("vmlinuz", <<<<5, 8, 0>>, 0, FALSE>>)
           /\ current_kernels[i].config = BootName("config", <<<<15, 8, 0>>, 0, FALSE>>))

\* 5.7.9 and 5.7.9-r1: the scan returns with one System.map in both records
Run_C9 ==
    ~(/\ fs = LayoutOf({<<<<5, 7, 9>>, 0, FALSE>>, <<<<5, 7, 9>>, 1, FALSE>>})
      /\ pc = "ready"
      /\ Len(current_kernels) = 2
      /\ current_kernels[1].system_map = current_kernels[2].system_map)

-----------------------------------------------------------------------------
(* Claims about repeated runs *)

\* the rm commands issued in the first run
FirstRunLog == SelectSeq(log, LAMBDA e : e.run = 1)

-----------------------------------------------------------------------------
(* Claims about the update sequence *)

\* the names of the steps update() has started, in order
StepNames == [i \in 1..Len(steps) |-> steps[i].step]

\* whether s is a list that t starts with
IsPrefix(s, t) == Len(s) <= Len(t) /\ s = SubSeq(t, 1, Len(s))

\* the steps of an update as the spec lists them: all six in normal mode, all
\* but the config sync in manual mode, the retention alone in clean-only mode
StatedSteps ==
    IF settings.clean_only THEN <<"clean_up">>
    ELSE (IF settings.manual_edit THEN <<>> ELSE <<"update_config">>)
         \o <<"compile_kernel", "install_new_kernel", "recompile_extra_modules",
              "clean_up", "grub_mk_config">>

\* the steps of an update with the two settings counted in
SettingsSteps ==
    IF settings.clean_only THEN <<"clean_up">>
    ELSE (IF settings.manual_edit THEN <<>> ELSE <<"update_config">>)
         \o <<"compile_kernel", "install_new_kernel">>
         \o (IF settings.emerge_module_rebuild THEN <<"recompile_extra_modules">> ELSE <<>>)
         \o <<"clean_up">>
         \o (IF settings.gen_grub_config THEN <<"grub_mk_config">> ELSE <<>>)

\* a step is under way, has ended the program, or update() has returned
InUpdate == pc \notin {"start", "ready", "test"}

\* C12 as the spec states it: the steps started are, in order, the first of
\* the six steps (of the five in manual mode, the retention alone in
\* clean-only mode), and all of them once update() has returned.
C12_AsStated ==
    /\ IsPrefix(StepNames, StatedSteps)
    /\ pc = "done" => StepNames = StatedSteps

\* C12, amended: update() starts its steps in the order config sync, compile,
\* install, rebuild of extra modules, retention, bootloader, one at a time and
\* each once, where the config sync is left out in manual mode, the rebuild
\* runs only if EmergeModuleRebuild is set and the bootloader step only if
\* RegenerateGrubConfig is set; in clean-only mode the retention is the only
\* step.  The step under way is the last one started, and when update() has
\* returned every step of the mode has run.
C12_Sequence ==
    /\ IsPrefix(StepNames, SettingsSteps)
    /\ pc = "done" => StepNames = SettingsSteps
    /\ pc \in {"update_config", "compile_kernel", "install_new_kernel",
               "recompile_extra_modules", "clean_up", "grub_mk_config"} =>
         /\ Len(steps) < Len(SettingsSteps)
         /\ SettingsSteps[Len(steps) + 1] = pc
    /\ pc \in {"threshold", "loop", "remove"} => StepNames[Len(steps)] = "clean_up"

\* a manual-mode update without the two optional steps has returned, after a
\* retention pass that removed a record
C12_Witness ==
    /\ pc = "done"
    /\ settings.manual_edit
    /\ ~settings.emerge_module_rebuild
    /\ ~settings.gen_grub_config
    /\ StepNames = <<"compile_kernel", "install_new_kernel", "clean_up">>
    /\ log # <<>>

\* C13: a collaborator call that returns a failed status ends the run in
\* error_and_exit (exit status 1) at once: the step that made the call is the
\* last step started, so no step runs after it and none is run again, and a
\* failure before the retention step leaves no rm issued.
C13_FailureIsFatal ==
    \A i \in 1..Len(steps) :
      ~steps[i].ok =>
        /\ i = Len(steps)
        /\ pc = "exit1"
        /\ \A j \in 1..(i - 1) : steps[j].step # steps[i].step
        /\ steps[i].step # "grub_mk_config" => (log = <<>> /\ "clean_up" \notin Range(StepNames))

\* the compile step has failed after the config sync
C13_Witness ==
    /\ pc = "exit1"
    /\ steps # <<>>
    /\ steps[Len(steps)].cmd = "make"
    /\ Len(steps) = 2

-----------------------------------------------------------------------------
(* Claims about the records the scan builds *)

\* a file name without its prefix: what encodes version, release candidate
\* and generation
Encoded(name) == SubSeq(name, 2, Len(name))

\* C14 as the spec states it: in every record the System.map and the config
\* encode what the image encodes, and no System.map or config is in two
\* records.
C14_AsStated ==
    /\ \A i \in 1..Len(current_kernels) :
         /\ Encoded(current_kernels[i].system_map) = Encoded(current_kernels[i].vmlinuz)
         /\ Encoded(current_kernels[i].config) = Encoded(current_kernels[i].vmlinuz)
    /\ \A i, j \in 1..Len(current_kernels) :
         i # j => /\ current_kernels[i].system_map # current_kernels[j].system_map
                  /\ current_kernels[i].config # current_kernels[j].config

\* 5.8.0 and 15.8.0 with all their files: the scan returns with
\* System.map-15.8.0-gentoo in the record of 5.8.0
Run_C14 ==
    ~(/\ fs = LayoutOf({<<<<5, 8, 0>>, 0, FALSE>>, <<<<15, 8, 0>>, 0, FALSE>>})
      /\ pc = "ready"
      /\ \E i \in 1..Len(current_kernels) :
           /\ current_kernels[i].vmlinuz = BootName("vmlinuz", <<<<5, 8, 0>>, 0, FALSE>>)
           /\ current_kernels[i].system_map = BootName("System.map", <<<<15, 8, 0>>, 0, FALSE>>))

\* C15 as the spec states it: when a scan ends the run, by error_and_exit or
\* by an exception, no step has run a command and no rm has been issued.
C15_AsStated ==
    [][(pc \in {"start", "clean_up"} /\ pc' \in {"exit1", "crash"})
          => (steps = <<>> /\ log = <<>>)]_vars

\* 5.7.9-r1 is installed and built again: the scan of the retention step ends
\* in ValueError after the build and the install
Run_C15 ==
    ~(/\ pc = "crash"
      /\ settings.kernel_source = <<<<5, 7, 9>>, 1, FALSE>>
      /\ StepNames = <<"compile_kernel", "install_new_kernel", "clean_up">>
      /\ log = <<>>
      /\ glob_vmlinuz(fs) = {BootName("vmlinuz", <<<<5, 7, 9>>, 1, FALSE>>),
                             BootName("vmlinuz", <<<<5, 7, 9>>, 1, TRUE>>)})

-----------------------------------------------------------------------------
(* Claims about the order of the deletions and about parsing *)

\* the rm commands of the current run issued for a record
LogOf(v) == SelectSeq(RunLog, LAMBDA e : e.rec = v)

\* what a list of rm commands is issued for: "vmlinuz", "System.map",
\* "config", "linux" (a source directory), "modules" (a module directory)
KindsOf(l) == [i \in 1..Len(l) |-> l[i].target[1]]

\* the deletions of a record, in the order stated
StatedOrder(v) ==
    <<"vmlinuz", "System.map", "config", "linux">>
    \o (IF v.is_old THEN <<>> ELSE <<"modules">>)

\* the place of a record among those popped
PlaceOf(v) == CHOOSE k \in 1..Len(removed) : removed[k] = v

\* the rm commands of a pass come record by record, an older record before a
\* newer one; those of one record are issued in the order image, System.map,
\* config, source directory and, unless the record is .old, module directory,
\* and are all issued once the next record is begun or the pass has ended
IssueOrder ==
    /\ \A i \in 1..Len(RunLog) : \E k \in 1..Len(removed) : removed[k] = RunLog[i].rec
    /\ \A i, j \in 1..Len(RunLog) :
         i < j => PlaceOf(RunLog[i].rec) <= PlaceOf(RunLog[j].rec)
    /\ \A k, l \in 1..Len(removed) : k < l => Gt(removed[l], removed[k])
    /\ \A k \in 1..Len(removed) :
         /\ IsPrefix(KindsOf(LogOf(removed[k])), StatedOrder(removed[k]))
         /\ (k < Len(removed) \/ pc \in {"loop", "done"}) =>
              KindsOf(LogOf(removed[k])) = StatedOrder(removed[k])

\* the records the loop has yet to pop
ToPop == SubSeq(current_kernels, Len(current_kernels) - num_left + 1, Len(current_kernels))

\* the source and module directory of a record's version
DirsOf(v) == {<<"linux", "-">> \o ReleaseOf(v), ModuleDirOf(v)}

\* C16 as the spec states it: the rm commands come in the order stated, record
\* by record, and no directory of a selected record is deleted before the rm
\* commands of its three files.
C16_AsStated ==
    /\ IssueOrder
    /\ pc \in {"loop", "remove"} =>
         \A v \in Range(removed \o ToPop) :
           DirsOf(v) \cap Deleted # {} => Len(LogOf(v)) >= 3

\* 15.8.0, 5.8.0, 5.7.10 and 5.7.10.old: 5.7.10.old has been removed, and with
\* it the source directory of 5.7.10, whose files are still to be deleted
Run_C16 ==
    ~(/\ Fs0 = LayoutOf({<<<<15, 8, 0>>, 0, FALSE>>, <<<<5, 8, 0>>, 0, FALSE>>,
                         <<<<5, 7, 10>>, 0, FALSE>>, <<<<5, 7, 10>>, 0, TRUE>>})
      /\ pc = "loop"
      /\ Images(removed) = <<BootName("vmlinuz", <<<<5, 7, 10>>, 0, TRUE>>)>>
      /\ Images(ToPop) = <<BootName("vmlinuz", <<<<5, 7, 10>>, 0, FALSE>>)>>
      /\ SourceDir(<<5, 7, 10>>, 0) \notin fs
      /\ BootFiles({<<<<5, 7, 10>>, 0, FALSE>>}) \subseteq fs)

\* the digits of the rN field of an image name
NumberOf(field) == SelectSeq(field, IsDigit)

\* C17 as the spec states it: a record built from an image name of three
\* fields has release candidate 0, one built from a name of four fields has
\* the N of its rN field, also when the name ends in .old; is_old is set
\* exactly for the names that end in .old; and the record has a key to be
\* sorted by.
C17_AsStated ==
    \A i \in 1..Len(current_kernels) :
      LET v == current_kernels[i]
          fields == Split(v.vmlinuz, "-")
      IN  /\ Len(fields) = 3 => v.release_candidate_num = <<"0">>
          /\ Len(fields) = 4 => v.release_candidate_num = NumberOf(fields[4])
          /\ v.is_old <=> EndsWith(v.vmlinuz, DotOld)
          /\ TupleOk(v)

\* 5.7.9-r1.old alone: the scan returns with a record whose
\* release_candidate_num is "1.old"
Run_C17 ==
    ~(/\ fs = LayoutOf({<<<<5, 7, 9>>, 1, TRUE>>})
      /\ pc = "ready"
      /\ Len(current_kernels) = 1
      /\ current_kernels[1].is_old
      /\ current_kernels[1].release_candidate_num = <<"1", ".", "old">>)

=============================================================================
